---------------------------- MODULE Spec2Model ----------------------------
(***************************************************************************)
(* A state-machine model of the clinic application in src/app.py: the     *)
(* three tables (Patient, Appointment, Bill) held in a SQLite database     *)
(* through Flask-SQLAlchemy, and the request handlers that mutate them.    *)
(*                                                                         *)
(* Conventions.                                                            *)
(*  - A table is a function from the ids of its rows to the rows.  SQLite  *)
(*    gives an "INTEGER PRIMARY KEY" column declared without AUTOINCREMENT *)
(*    (which is what db.Column(db.Integer, primary_key=True) produces) the *)
(*    value max(id)+1, or 1 in an empty table, so the id of a deleted last *)
(*    row is handed out again.                                             *)
(*  - The database is opened with SQLite's defaults: no PRAGMA foreign_keys*)
(*    is issued, so the ForeignKey declarations are not enforced.          *)
(*  - Text that the handlers parse or that the claims inspect is a tuple   *)
(*    of one-character strings; None is the Python None (SQL NULL).        *)
(*  - Each handler runs its single db.session.commit() as one step.  The   *)
(*    one handler that suspends in the middle, simulate_pay (time.sleep),  *)
(*    is two steps: the request entering the sleep, and the lookup and     *)
(*    commit after it.  Requests are served concurrently.                  *)
(*  - Free-text columns that no handler reads and that are stored verbatim *)
(*    (email, phone, address, gender, diagnosis; doctor, time, reason) are *)
(*    represented by one of them per table (name; none; description).      *)
(***************************************************************************)
EXTENDS Integers, Sequences, FiniteSets, TLC

VARIABLES patient,      \* table patient:     id -> [name, age, created_at]
          appointment,  \* table appointment: id -> [patient_id, date, status]
          bill,         \* table bill: id -> [patient_id, amount, payment_method,
                        \*   status, transaction_id, description, date_issued]
          now,          \* the last value datetime.utcnow returned
          sleeping,     \* the simulate_pay requests inside time.sleep (requests that
                        \*   agree in everything are one), each with
                        \*   `target`, a history of the bill it names: "present" or
                        \*   "absent" when the request arrived, "deleted" once a
                        \*   present one was deleted during the sleep
          last          \* the response of the handler step taken last

vars == <<patient, appointment, bill, now, sleeping, last>>
store == <<patient, appointment, bill>>

---------------------------------------------------------------------------
\* Bounds of the model.
MaxRows == 2        \* rows in the table a profile is about, before inserts stop
FewRows == 1        \* the same, in the other tables of the profile
MaxClock == 1       \* the clock values are 0..MaxClock
MaxPays == 1        \* simulate_pay requests sleeping at once
MaxDraws == 2       \* outcomes of random.choices that are considered

\* k of random.choices(..., k=8)
TxnLen == 8

None == <<"None">>

---------------------------------------------------------------------------
\* Text and its conversions.

SetMax(S) == CHOOSE x \in S : \A y \in S : y <= x

Digits == <<"0", "1", "2", "3", "4", "5", "6", "7", "8", "9">>
IsDigit(c) == \E d \in 1..10 : Digits[d] = c
DigitVal(c) == (CHOOSE d \in 1..10 : Digits[d] = c) - 1

\* string.ascii_uppercase + string.digits
Alphabet == <<"A", "B", "C", "D", "E", "F", "G", "H", "I", "J", "K", "L", "M",
              "N", "O", "P", "Q", "R", "S", "T", "U", "V", "W", "X", "Y", "Z",
              "0", "1", "2", "3", "4", "5", "6", "7", "8", "9">>

\* Code points of the characters that occur in the date texts.
Ord(c) == IF c = "-" THEN 45 ELSE 48 + DigitVal(c)

\* The value of a run of decimal digits, most significant first.
RECURSIVE DigitsValue(_)
DigitsValue(s) ==
    IF s = <<>> THEN 0
    ELSE 10 * DigitsValue(SubSeq(s, 1, Len(s) - 1)) + DigitVal(s[Len(s)])

AllDigits(s) == s # <<>> /\ \A i \in DOMAIN s : IsDigit(s[i])

Ok(v) == [ok |-> TRUE, val |-> v, err |-> "none"]
Raise(e) == [ok |-> FALSE, val |-> 0, err |-> e]

\* Python's int(x) on a value of a form: None raises TypeError, a text that is
\* not an optionally signed run of digits raises ValueError.
int(x) ==
    IF x = None THEN Raise("TypeError")
    ELSE IF x # <<>> /\ x[1] \in {"-", "+"}
         THEN IF AllDigits(Tail(x))
              THEN Ok(IF x[1] = "-" THEN 0 - DigitsValue(Tail(x))
                                    ELSE DigitsValue(Tail(x)))
              ELSE Raise("ValueError")
         ELSE IF AllDigits(x) THEN Ok(DigitsValue(x)) ELSE Raise("ValueError")

\* Python's float(x) on a value of a form, for decimal texts: an optional sign,
\* digits, and an optional point with digits after it (exponents, inf and nan
\* are not submitted).  The float is held in hundredths, which is exact for the
\* texts with at most two digits after the point.
float(x) ==
    IF x = None THEN Raise("TypeError")
    ELSE LET signed == x # <<>> /\ x[1] \in {"-", "+"}
             body == IF signed THEN Tail(x) ELSE x
             dots == { i \in DOMAIN body : body[i] = "." }
             dot == IF dots = {} THEN Len(body) + 1
                    ELSE CHOOSE i \in dots : \A j \in dots : i <= j
             whole == SubSeq(body, 1, dot - 1)
             frac == SubSeq(body, dot + 1, Len(body))
             hundredths == 100 * DigitsValue(whole)
                             + DigitsValue(SubSeq(frac \o <<"0", "0">>, 1, 2))
         IN IF /\ Cardinality(dots) <= 1
               /\ Len(whole) + Len(frac) > 0
               /\ \A i \in DOMAIN whole : IsDigit(whole[i])
               /\ \A i \in DOMAIN frac : IsDigit(frac[i])
            THEN Ok(IF signed /\ x[1] = "-" THEN 0 - hundredths ELSE hundredths)
            ELSE Raise("ValueError")

\* `x or 0`: None and the empty text are falsy.
OrZero(x) == IF x = None \/ x = <<>> THEN <<"0">> ELSE x

\* a < b for texts, as SQLite's BINARY collation compares them.
RECURSIVE TextLess(_, _)
TextLess(a, b) ==
    IF b = <<>> THEN FALSE
    ELSE IF a = <<>> THEN TRUE
    ELSE IF Ord(a[1]) # Ord(b[1]) THEN Ord(a[1]) < Ord(b[1])
    ELSE TextLess(Tail(a), Tail(b))

\* random.choices(string.ascii_uppercase + string.digits, k=k): MaxDraws of its
\* 36^k outcomes.
random_choices(k) ==
    { [i \in 1..k |-> Alphabet[((11 * d + 7 * i) % 36) + 1]] : d \in 1..MaxDraws }

\* Faulty variant: the default prefix 'TX' whatever the argument.
random_txn_TX(prefix) == { <<"T", "X">> \o body : body \in random_choices(TxnLen) }

random_txn(prefix) == { prefix \o body : body \in random_choices(TxnLen) }

---------------------------------------------------------------------------
\* Tables.

EmptyTable == [i \in {} |-> 0]
NextId(tbl) == IF DOMAIN tbl = {} THEN 1 ELSE SetMax(DOMAIN tbl) + 1
InsertRow(tbl, row) == [i \in DOMAIN tbl \cup {NextId(tbl)} |->
                           IF i \in DOMAIN tbl THEN tbl[i] ELSE row]
DeleteRows(tbl, ids) == [i \in DOMAIN tbl \ ids |-> tbl[i]]

Patient(name, age, created_at) ==
    [name |-> name, age |-> age, created_at |-> created_at]

Appointment(patient_id, date) ==
    [patient_id |-> patient_id, date |-> date, status |-> "Upcoming"]

\* A Bill as add_bill constructs it: status 'Pending', no transaction_id.
Bill(patient_id, amount, payment_method, description, date_issued) ==
    [patient_id |-> patient_id, amount |-> amount,
     payment_method |-> payment_method, status |-> "Pending",
     transaction_id |-> None, description |-> description,
     date_issued |-> date_issued]

\* datetime.utcnow(): the clock does not run backwards, and two readings may
\* be equal.
utcnow(t) == { u \in {t, t + 1} : u <= MaxClock }

\* The rows of a table in rowid order, which is the order SQLite scans them in.
RowidScan(tbl) ==
    [i \in 1..Cardinality(DOMAIN tbl) |->
        CHOOSE x \in DOMAIN tbl : Cardinality({y \in DOMAIN tbl : y < x}) = i - 1]

\* ORDER BY over a scan, `before` being the pairs <<x, y>> of rows with the key
\* of x sorting before the key of y: SQLite's sorter keeps rows with equal keys
\* in the order of the scan.
OrderBy(scan, before) ==
    LET n == Len(scan)
        Rank(i) == 1 + Cardinality({ j \in 1..n :
                        \/ <<scan[j], scan[i]>> \in before
                        \/ <<scan[i], scan[j]>> \notin before /\ j < i })
    IN [k \in 1..n |-> scan[CHOOSE i \in 1..n : Rank(i) = k]]

\* What a handler step answers: the HTTP status (0: nothing sent yet), the message
\* it flashes, and the txn of simulate_pay's JSON.
Response(status, flash, body) ==
    [status |-> status, flash |-> flash, body |-> body]

NoResponse == Response(0, "", <<>>)
NotFound == Response(404, "", <<>>)
ServerError == Response(500, "", <<>>)
Redirect(flash) == Response(302, flash, <<>>)

---------------------------------------------------------------------------
\* The relationships of Patient (cascade='all,delete-orphan'): the rows that
\* db.session.delete(p) loads through them and deletes with p.

Patient_appointments(id) ==
    { a \in DOMAIN appointment : appointment[a].patient_id = id }

\* Faulty variant: the bills relationship without its cascade.
Patient_bills_NoCascade(id) == {}

Patient_bills(id) == { b \in DOMAIN bill : bill[b].patient_id = id }

\* What deleting the bills `ids` means to the requests asleep.
Forget(ids) ==
    { IF r.bill_id \in ids /\ r.target = "present"
      THEN [r EXCEPT !.target = "deleted"] ELSE r : r \in sleeping }

---------------------------------------------------------------------------
\* DATABASE INIT (run when the module is loaded): create_all, and the seed rows
\* when the patient table is empty.  The two patients go in with one flush, the
\* appointment and the bill with the next.

JohnDoe == <<"J", "o", "h", "n", " ", "D", "o", "e">>
MaryJane == <<"M", "a", "r", "y", " ", "J", "a", "n", "e">>
Cash == <<"C", "a", "s", "h">>
SeedDate == <<"2", "0", "2", "5", "-", "1", "1", "-", "0", "1">>

SeedPatients(t1, t2) ==
    InsertRow(InsertRow(EmptyTable, Patient(JohnDoe, 30, t1)),
              Patient(MaryJane, 25, t2))

SeedBill(p1, txn, t3) ==
    [Bill(p1, 250000, Cash, None, t3) EXCEPT !.status = "Paid",
                                           !.transaction_id = txn]

Init ==
    \E t1 \in {0} : \E t2 \in utcnow(t1) : \E t3 \in utcnow(t2) :
    \E txn \in random_txn(Cash) :
        /\ patient = SeedPatients(t1, t2)
        /\ appointment = InsertRow(EmptyTable, Appointment(1, SeedDate))
        /\ bill = InsertRow(EmptyTable, SeedBill(1, txn, t3))
        /\ now = t3
        /\ sleeping = {}
        /\ last = NoResponse

\* The server starts again on the database it left: the requests in flight are
\* gone, and the seed rows are written if no patient is left.
database_init ==
    /\ sleeping' = {}
    /\ last' = NoResponse
    /\ IF DOMAIN patient = {}
       THEN \E t1 \in utcnow(now) : \E t2 \in utcnow(t1) : \E t3 \in utcnow(t2) :
            \E txn \in random_txn(Cash) :
                /\ patient' = SeedPatients(t1, t2)
                /\ appointment' = InsertRow(appointment, Appointment(1, SeedDate))
                /\ bill' = InsertRow(bill, SeedBill(1, txn, t3))
                /\ now' = t3
       ELSE UNCHANGED <<patient, appointment, bill, now>>

---------------------------------------------------------------------------
\* Views (no effect on the store).

\* Faulty variant: order_by(Patient.created_at.asc()).
patients_Ascending ==
    OrderBy(RowidScan(patient),
            { xy \in (DOMAIN patient) \X (DOMAIN patient) :
                patient[xy[1]].created_at < patient[xy[2]].created_at })

\* Patient.query.order_by(Patient.created_at.desc()).all()
patients ==
    OrderBy(RowidScan(patient),
            { xy \in (DOMAIN patient) \X (DOMAIN patient) :
                patient[xy[1]].created_at > patient[xy[2]].created_at })

\* Faulty variant: Appointment.query.all(), the order_by left out.
appointments_Unordered == RowidScan(appointment)

\* Appointment.query.order_by(Appointment.date.asc()).all()
appointments ==
    OrderBy(RowidScan(appointment),
            { xy \in (DOMAIN appointment) \X (DOMAIN appointment) :
                TextLess(appointment[xy[1]].date, appointment[xy[2]].date) })

\* Patient.query.get_or_404(id) and the JSON of the patient with its children.
api_patient(id) ==
    IF id \notin DOMAIN patient
    THEN [status |-> 404, appointments |-> {}, bills |-> {}]
    ELSE [status |-> 200, appointments |-> Patient_appointments(id),
          bills |-> Patient_bills(id)]

---------------------------------------------------------------------------
\* Patients.

add_patient(form) ==
    LET age == int(OrZero(form.age)) IN
    IF age.ok
    THEN \E t \in utcnow(now) :
            /\ patient' = InsertRow(patient, Patient(form.name, age.val, t))
            /\ now' = t
            /\ last' = Redirect("Patient added successfully")
            /\ UNCHANGED <<appointment, bill, sleeping>>
    ELSE /\ last' = Redirect("Error adding patient")
         /\ UNCHANGED <<patient, appointment, bill, now, sleeping>>

edit_patient(id, form) ==
    LET age == int(OrZero(form.age)) IN
    /\ UNCHANGED <<appointment, bill, now, sleeping>>
    /\ IF id \notin DOMAIN patient
       THEN /\ last' = NotFound
            /\ UNCHANGED patient
       ELSE IF age.ok
       THEN /\ patient' = [patient EXCEPT ![id].name = form.name,
                                          ![id].age = age.val]
            /\ last' = Redirect("Patient updated successfully")
       ELSE /\ last' = Redirect("Error updating")
            /\ UNCHANGED patient

delete_patient(id) ==
    /\ UNCHANGED now
    /\ IF id \notin DOMAIN patient
       THEN /\ last' = NotFound
            /\ UNCHANGED <<patient, appointment, bill, sleeping>>
       ELSE /\ patient' = DeleteRows(patient, {id})
            /\ appointment' = DeleteRows(appointment, Patient_appointments(id))
            /\ bill' = DeleteRows(bill, Patient_bills(id))
            /\ sleeping' = Forget(Patient_bills(id))
            /\ last' = Redirect("Patient deleted")

---------------------------------------------------------------------------
\* Appointments.

add_appointment(form) ==
    LET pid == int(form.patient_id) IN
    /\ UNCHANGED <<patient, bill, now, sleeping>>
    /\ IF pid.ok
       THEN /\ appointment' = InsertRow(appointment, Appointment(pid.val, form.date))
            /\ last' = Redirect("Appointment added")
       ELSE /\ last' = ServerError
            /\ UNCHANGED appointment

delete_appointment(id) ==
    /\ UNCHANGED <<patient, bill, now, sleeping>>
    /\ IF id \notin DOMAIN appointment
       THEN /\ last' = NotFound
            /\ UNCHANGED appointment
       ELSE /\ appointment' = DeleteRows(appointment, {id})
            /\ last' = Redirect("Appointment deleted")

---------------------------------------------------------------------------
\* Billing.

add_bill(form) ==
    LET pid == int(form.patient_id)
        amount == float(OrZero(form.amount))
    IN
    IF pid.ok /\ amount.ok
    THEN \E t \in utcnow(now) :
            /\ bill' = InsertRow(bill, Bill(pid.val, amount.val,
                            form.payment_method, form.description, t))
            /\ now' = t
            /\ last' = Redirect("Bill created successfully")
            /\ UNCHANGED <<patient, appointment, sleeping>>
    ELSE /\ last' = ServerError
         /\ UNCHANGED <<patient, appointment, bill, now, sleeping>>

delete_bill(id) ==
    /\ UNCHANGED <<patient, appointment, now>>
    /\ IF id \notin DOMAIN bill
       THEN /\ last' = NotFound
            /\ UNCHANGED <<bill, sleeping>>
       ELSE /\ bill' = DeleteRows(bill, {id})
            /\ sleeping' = Forget({id})
            /\ last' = Redirect("Bill deleted")

\* simulate_pay up to time.sleep(2): the request is parsed and goes to sleep.
\* Nothing has been read from the database.
simulate_pay_sleep(data) ==
    LET bill_id == int(data.bill_id) IN
    /\ UNCHANGED <<patient, appointment, bill, now>>
    /\ IF bill_id.ok
       THEN /\ sleeping' = sleeping \cup
                   {[bill_id |-> bill_id.val, method |-> data.method,
                     phone |-> data.phone,
                     target |-> IF bill_id.val \in DOMAIN bill
                                THEN "present" ELSE "absent"]}
            /\ last' = NoResponse
       ELSE /\ last' = ServerError
            /\ UNCHANGED sleeping

\* Faulty variant: the assignment to transaction_id left out.
Paid_NoTxn(b, method, txn) ==
    [b EXCEPT !.payment_method = method, !.status = "Paid"]

\* Faulty variant: the status flipped instead of set.
Paid_Toggle(b, method, txn) ==
    [b EXCEPT !.payment_method = method, !.transaction_id = txn,
              !.status = IF @ = "Paid" THEN "Pending" ELSE "Paid"]

\* The three assignments to the Bill that simulate_pay commits.
Paid(b, method, txn) ==
    [b EXCEPT !.payment_method = method, !.transaction_id = txn,
              !.status = "Paid"]

\* simulate_pay after the sleep: get_or_404, the assignments, the commit.
simulate_pay(r) ==
    /\ r \in sleeping
    /\ sleeping' = sleeping \ {r}
    /\ UNCHANGED <<patient, appointment, now>>
    /\ IF r.bill_id \notin DOMAIN bill
       THEN /\ last' = NotFound
            /\ UNCHANGED bill
       ELSE \E txn \in random_txn(<<"M", "P">>) :
            /\ bill' = [bill EXCEPT ![r.bill_id] = Paid(@, r.method, txn)]
            /\ last' = Response(200, "", txn)

---------------------------------------------------------------------------
\* The requests.  A profile P bounds the tables and names the values the forms
\* carry.

Mpesa == <<"M", "p", "e", "s", "a">>
Ann == <<"A", "n", "n">>
Consultation == <<"C", "o", "n", "s", "u", "l", "t">>
Phone == <<"2", "5", "4", "7", "0", "0", "0", "0", "0", "0", "0", "0">>
Date2024 == <<"2", "0", "2", "4", "-", "0", "1", "-", "0", "1">>
DateUnpadded == <<"2", "0", "2", "5", "-", "2", "-", "1">>

\* str(n) for a one-digit n
Str(n) == <<Digits[n + 1]>>

Ids(max) == 1..(max + 1)
IdTexts(max) == { Str(i) : i \in Ids(max) } \cup {None}
Room(tbl, max) == Cardinality(DOMAIN tbl) < max /\ NextId(tbl) <= max + 1

PatientForms(P) == [name : {Ann}, age : P.ages]
AppointmentForms(P) == [patient_id : IdTexts(P.max_patients), date : P.dates]
BillForms(P) ==
    [patient_id : IdTexts(P.max_patients), amount : P.amounts,
     payment_method : {Cash}, description : {Consultation}]
PayData(P) == [bill_id : IdTexts(P.max_bills), method : {Mpesa}, phone : P.phones]

Next(P) ==
    \/ \E form \in PatientForms(P) :
          Room(patient, P.max_patients) /\ add_patient(form)
    \/ \E id \in Ids(P.max_patients), form \in PatientForms(P) :
          edit_patient(id, form)
    \/ \E id \in Ids(P.max_patients) : delete_patient(id)
    \/ \E form \in AppointmentForms(P) :
          Room(appointment, P.max_appointments) /\ add_appointment(form)
    \/ \E id \in Ids(P.max_appointments) : delete_appointment(id)
    \/ \E form \in BillForms(P) : Room(bill, P.max_bills) /\ add_bill(form)
    \/ \E id \in Ids(P.max_bills) : delete_bill(id)
    \/ \E data \in PayData(P) :
          Cardinality(sleeping) < MaxPays /\ simulate_pay_sleep(data)
    \/ \E r \in sleeping : simulate_pay(r)
    \/ /\ DOMAIN patient = {} =>
             Room(appointment, P.max_appointments) /\ Room(bill, P.max_bills)
       /\ database_init

\* The billing requests in full, around few patients and appointments.
Billing ==
    [max_patients |-> FewRows, max_appointments |-> FewRows, max_bills |-> MaxRows,
     ages |-> {None}, dates |-> {Date2024},
     amounts |-> {None}, phones |-> {None, Phone}]

\* The patient requests in full.
Patients ==
    [max_patients |-> MaxRows, max_appointments |-> FewRows, max_bills |-> FewRows,
     ages |-> {None, <<>>, <<"-", "1">>, <<"x">>, <<"7">>}, dates |-> {Date2024},
     amounts |-> {<<"-", "0", ".", "5">>, <<"x">>}, phones |-> {None}]

\* The appointment requests in full.
Appointments ==
    [max_patients |-> FewRows, max_appointments |-> MaxRows, max_bills |-> FewRows,
     ages |-> {None}, dates |-> {Date2024, DateUnpadded},
     amounts |-> {None}, phones |-> {None}]

Spec == Init /\ [][Next(Billing)]_vars
SpecPatients == Init /\ [][Next(Patients)]_vars
SpecAppointments == Init /\ [][Next(Appointments)]_vars

---------------------------------------------------------------------------
\* Properties.

Range(s) == { s[i] : i \in DOMAIN s }
Perm(L, S) == Len(L) = Cardinality(S) /\ Range(L) = S

\* a < b character by character, a proper prefix being smaller.
LexLess(a, b) ==
    \E k \in 1..(Len(b)) :
        /\ \A i \in 1..(k - 1) : i <= Len(a) /\ a[i] = b[i]
        /\ k - 1 <= Len(a)
        /\ k > Len(a) \/ Ord(a[k]) < Ord(b[k])

\* The ids of the Patients, of the Appointments and of the Bills are a frame:
\* nothing in the three tables changes.
StoreUnchanged == patient' = patient /\ appointment' = appointment /\ bill' = bill

\* The step is the return of the sleeping request r of simulate_pay: r is gone
\* from the sleep and the answer is that of simulate_pay's lookup (404) or of its
\* end (200).
PayReturns(r) ==
    /\ r \in sleeping
    /\ sleeping' = sleeping \ {r}
    /\ last'.status \in {200, 404}

\* The step is a request of simulate_pay going to sleep.
PaySleeps == sleeping \subseteq sleeping' /\ sleeping' # sleeping

\* C1: add_appointment and add_bill submitted with a patient_id that is the id of
\* no Patient fail (no success answer) and leave the three tables as they were.
C1_MissingPatientRejected ==
    [][ /\ \A form \in AppointmentForms(Appointments) :
            /\ add_appointment(form)
            /\ int(form.patient_id).ok
            /\ int(form.patient_id).val \notin DOMAIN patient
            => last'.status >= 400 /\ StoreUnchanged
        /\ \A form \in BillForms(Appointments) :
            /\ add_bill(form)
            /\ int(form.patient_id).ok
            /\ int(form.patient_id).val \notin DOMAIN patient
            => last'.status >= 400 /\ StoreUnchanged
      ]_vars

\* C2: every stored Appointment and every stored Bill carries the id of a stored
\* Patient.
C2_NoOrphans ==
    /\ \A a \in DOMAIN appointment : appointment[a].patient_id \in DOMAIN patient
    /\ \A b \in DOMAIN bill : bill[b].patient_id \in DOMAIN patient

\* C3: a step that answers 'Patient deleted' removes one Patient id, every
\* Appointment and Bill whose patient_id is id and nothing else, all in that one
\* step, and api_patient(id) then answers 404.
C3_DeletePatientCascades ==
    [][ last' = Redirect("Patient deleted") =>
        \E id \in DOMAIN patient :
            /\ patient' = [p \in DOMAIN patient \ {id} |-> patient[p]]
            /\ appointment' =
                 [a \in { x \in DOMAIN appointment : appointment[x].patient_id # id }
                    |-> appointment[a]]
            /\ bill' = [b \in { x \in DOMAIN bill : bill[x].patient_id # id }
                          |-> bill[b]]
            /\ (api_patient(id).status)' = 404
      ]_vars

\* C3 witness: Patient 1 was deleted with its children, and Patient 2 and a Bill
\* of Patient 2 are still there.
C3_Witness ==
    /\ last = Redirect("Patient deleted")
    /\ DOMAIN patient = {2}
    /\ DOMAIN appointment = {}
    /\ \E b \in DOMAIN bill : bill[b].patient_id = 2

\* C4: a Bill has a transaction_id exactly when its status is Paid.
C4_TxnIffPaid ==
    \A b \in DOMAIN bill :
        (bill[b].transaction_id # None) <=> (bill[b].status = "Paid")

\* C4 witness: simulate_pay has just paid a Bill while another one is Pending.
C4_Witness ==
    /\ last.status = 200
    /\ \E b \in DOMAIN bill : bill[b].transaction_id = last.body
    /\ \E b \in DOMAIN bill : bill[b].status = "Pending"

\* C5: no stored Patient has a negative age and no stored Bill a negative amount.
C5_NonNegative ==
    /\ \A p \in DOMAIN patient : patient[p].age >= 0
    /\ \A b \in DOMAIN bill : bill[b].amount >= 0

IsMpTxn(t) ==
    /\ Len(t) = 10
    /\ t[1] = "M" /\ t[2] = "P"
    /\ \A i \in 3..10 : t[i] \in Range(Alphabet)

\* C6: when a request leaves the sleep of simulate_pay and its Bill exists (Pending
\* or Paid), the answer is 200 with a txn MP + 8 characters of A-Z0-9, and the
\* store changes in that Bill's status (Paid), payment_method (the request's
\* method) and transaction_id (the txn answered) and in nothing else.
C6_PayEffect ==
    [][ \A r \in sleeping :
          PayReturns(r) /\ r.bill_id \in DOMAIN bill
          => /\ last'.status = 200
             /\ IsMpTxn(last'.body)
             /\ DOMAIN bill' = DOMAIN bill
             /\ \A b \in DOMAIN bill \ {r.bill_id} : bill'[b] = bill[b]
             /\ bill'[r.bill_id] =
                  [patient_id |-> bill[r.bill_id].patient_id,
                   amount |-> bill[r.bill_id].amount,
                   payment_method |-> r.method,
                   status |-> "Paid",
                   transaction_id |-> last'.body,
                   description |-> bill[r.bill_id].description,
                   date_issued |-> bill[r.bill_id].date_issued]
             /\ patient' = patient /\ appointment' = appointment
      ]_vars

\* C6 witness: the seeded Bill, Paid in cash from the start, has been paid again
\* by simulate_pay, and another Bill is there.
C6_Witness ==
    /\ last.status = 200
    /\ \E b \in DOMAIN bill :
          /\ bill[b].amount = 250000
          /\ bill[b].payment_method = Mpesa
          /\ bill[b].transaction_id = last.body
    /\ Cardinality(DOMAIN bill) = 2

\* C7: a Bill that add_bill creates is Pending; the status of a stored Bill only
\* changes from Pending to Paid, in a step of simulate_pay for that Bill.
C7_StatusLifecycle ==
    [][ /\ last' = Redirect("Bill created successfully") =>
             \A b \in DOMAIN bill' \ DOMAIN bill : bill'[b].status = "Pending"
        /\ \A b \in DOMAIN bill \cap DOMAIN bill' :
             bill'[b].status # bill[b].status =>
                /\ bill[b].status = "Pending" /\ bill'[b].status = "Paid"
                /\ \E r \in sleeping : PayReturns(r) /\ r.bill_id = b
      ]_vars

\* C7 witness: a Bill made by add_bill has been paid by simulate_pay.
C7_Witness ==
    /\ last.status = 200
    /\ \E b \in DOMAIN bill :
          /\ bill[b].description = Consultation
          /\ bill[b].status = "Paid"
          /\ bill[b].transaction_id = last.body

Reverse(L) == [i \in 1..Len(L) |-> L[Len(L) + 1 - i]]

CreatedAtMonotone ==
    \A p, q \in DOMAIN patient :
        p < q => patient[p].created_at <= patient[q].created_at

\* C8 as stated: once add_patient has added a Patient, created_at does not
\* decrease in insertion order and the patients view lists the Patients in
\* strictly reverse insertion order.
C8_ReverseInsertionOrder ==
    last = Redirect("Patient added successfully") =>
        /\ CreatedAtMonotone
        /\ patients = Reverse(RowidScan(patient))

\* C8 as amended: created_at does not decrease in insertion order, and the
\* patients view lists every Patient once, by created_at descending, so that
\* Patients with different created_at are in reverse insertion order.
C8_CreatedAtDescending ==
    LET L == patients
        created_at(k) == patient[L[k]].created_at
    IN /\ CreatedAtMonotone
       /\ Perm(L, DOMAIN patient)
       /\ \A k, l \in 1..Len(L) :
             k < l => /\ created_at(k) >= created_at(l)
                      /\ created_at(k) # created_at(l) => L[k] > L[l]

\* C8 witness: add_patient has just added a Patient with a later created_at than
\* the one before it, and the view lists it first.
C8_Witness ==
    LET L == patients IN
    /\ last = Redirect("Patient added successfully")
    /\ Len(L) = 2
    /\ L[1] > L[2]
    /\ patient[L[1]].created_at > patient[L[2]].created_at

\* C9: the appointments view lists every Appointment once, by date ascending as
\* text, Appointments of the same date in insertion order.
C9_AppointmentsByDate ==
    LET L == appointments
        date(k) == appointment[L[k]].date
    IN /\ Perm(L, DOMAIN appointment)
       /\ \A k, l \in 1..Len(L) :
             k < l => \/ LexLess(date(k), date(l))
                      \/ date(k) = date(l) /\ L[k] < L[l]

\* C9 witness: add_appointment has just added Appointment 3 with the date of
\* Appointment 2, and the view lists 2 before 3.
C9_Witness ==
    /\ last = Redirect("Appointment added")
    /\ appointments = <<2, 3>>
    /\ appointment[2].date = appointment[3].date
    /\ appointment[2].date = DateUnpadded

\* C10: a simulate_pay request entering its sleep changes nothing in the store;
\* and a request whose Bill was deleted during the sleep answers 404 and changes
\* nothing in the store.
C10_PayAfterDelete ==
    [][ /\ PaySleeps => StoreUnchanged
        /\ \A r \in sleeping :
             PayReturns(r) /\ r.target = "deleted"
             => last' = NotFound /\ StoreUnchanged
      ]_vars

=============================================================================
